---------------------------- MODULE Spec2Model ----------------------------
(***************************************************************************)
(* RebarOpt: the solver of src/utils/solver.ts (runSolver and the          *)
(* functions it calls) together with the zone calculation of src/App.tsx   *)
(* that produces its runs.                                                 *)
(*                                                                         *)
(* All lengths are millimetres.  The planner halves the lap length         *)
(* (lap/2) and a zone's extent ((start+end)/2), so positions that may be   *)
(* half-integers are carried doubled; such names end in 2.                 *)
(***************************************************************************)
EXTENDS Integers, Sequences, FiniteSets, TLC

VARIABLES
    settings,        \* ProjectSettings
    stock,           \* StockCatalogItem[]
    laps,            \* LapRule[]
    runs,            \* BarRun[]
    directPieces,    \* DirectPiece[]
    inventory,       \* OffcutInventoryItem[]
    file,            \* the sheets of the project workbook last saved
    pc,              \* position of runSolver
    error,           \* the Error thrown, "none" while there is none
    runIdx,          \* generateSplicePlan: index of the run of runs.forEach
    groupPieces,     \* generateSplicePlan: pieces of the current run
    currentAbsPos,   \* generateSplicePlan: cursor
    remainingTotal,  \* generateSplicePlan: length still to cover
    plan,            \* generateSplicePlan: SplicePlanItem[]
    warnings,        \* generateSplicePlan: warnings
    allRequests,     \* optimizeCutting: the flattened requests
    diaIdx,          \* optimizeCutting: index of the diameter of uniqueDias.forEach
    inventoryBins,   \* optimizeDiaGroup: the bins of consumeInventorySequential
    mcRequests,      \* performMonteCarlo: requests
    mcOptions,       \* performMonteCarlo: stockOptions
    mcIter,          \* performMonteCarlo: i, the shuffled passes done
    bestBins,        \* performMonteCarlo: bestBins
    minWaste,        \* performMonteCarlo: minWaste
    seedWaste,       \* performMonteCarlo: initialWaste
    diaBins,         \* optimizeCutting: bins, what optimizeDiaGroup returned
    cuttingPlan,     \* optimizeCutting: cuttingPlan
    procurement,     \* optimizeCutting: procurement
    totals,          \* optimizeCutting: globalTotalInputLength, -PartsLength, -Weight
    result           \* the OptimizationResult runSolver resolves to

inputVars == <<settings, stock, laps, runs, directPieces, inventory, file>>
passedInputs == <<settings, laps, runs, directPieces, inventory, file>>
spliceVars == <<runIdx, groupPieces, currentAbsPos, remainingTotal, plan, warnings>>
mcVars == <<mcRequests, mcOptions, mcIter, bestBins, minWaste, seedWaste>>
cutVars == <<allRequests, diaIdx, inventoryBins, mcVars, diaBins, cuttingPlan, procurement, totals>>
vars == <<inputVars, pc, error, spliceVars, cutVars, result>>

---------------------------------------------------------------------------
(* Bounds of the model *)

MaxRuns == 2
MaxSegments == 2
MaxQty == 3
MaxDirect == 2
MaxInvQty == 2
MaxRequests == 4
MaxSpans == 3

---------------------------------------------------------------------------
(* Program constants *)

DefaultStockLength == 12000
FallbackLapFactor == 50
MinPieceLength == 1000
LongZoneWidth == 1000
ZoneBuffer == 100
FallbackBandHalf == 200
\* importProjectFromExcel: the stock length of a Stock row without lengths
ImportDefaultLength == 12000

NoResult == [kind |-> "none"]
NoZone == [startMm |-> -1, endMm |-> -1]

---------------------------------------------------------------------------
(* Generic helpers *)

RECURSIVE SumSeq(_)
SumSeq(s) == IF s = <<>> THEN 0 ELSE Head(s) + SumSeq(Tail(s))

Max(a, b) == IF a >= b THEN a ELSE b
Min(a, b) == IF a <= b THEN a ELSE b

\* the least element of a non-empty set of integers
MinOf(S) == CHOOSE x \in S : \A y \in S : x <= y

\* insertion of x into a descending sequence, after the elements equal to it
RECURSIVE InsertDesc(_, _)
InsertDesc(x, s) ==
    IF s = <<>> THEN <<x>>
    ELSE IF x > Head(s) THEN <<x>> \o s
    ELSE <<Head(s)>> \o InsertDesc(x, Tail(s))

\* [...a].sort((a, b) => b - a)
RECURSIVE SortDesc(_)
SortDesc(s) ==
    IF s = <<>> THEN <<>> ELSE InsertDesc(Head(s), SortDesc(Tail(s)))

---------------------------------------------------------------------------
(* src/App.tsx: calculateZones *)

\* the zones one segment contributes, the segment starting at currentDist
SegmentZones(currentDist, segmentLen, type, lapCase, h) ==
    IF type = "COLUMN" /\ lapCase = "COLUMN_VERTICAL"
    THEN <<[startMm |-> currentDist + segmentLen \div 4,
            endMm |-> currentDist + (3 * segmentLen) \div 4]>>
    ELSE IF lapCase = "BEAM_TOP"
    THEN <<[startMm |-> currentDist + segmentLen \div 3,
            endMm |-> currentDist + (2 * segmentLen) \div 3]>>
    ELSE IF lapCase = "BEAM_BOTTOM"
    THEN LET z1Start == currentDist + 2 * h
             z1End == currentDist + segmentLen \div 3
             z2Start == currentDist + (2 * segmentLen) \div 3
             z2End == currentDist + segmentLen - 2 * h
         IN  (IF z1End > z1Start THEN <<[startMm |-> z1Start, endMm |-> z1End]>> ELSE <<>>)
             \o (IF z2End > z2Start THEN <<[startMm |-> z2Start, endMm |-> z2End]>> ELSE <<>>)
    ELSE LET mid2 == 2 * currentDist + segmentLen
         IN  <<[startMm |-> Max(currentDist, (mid2 - 2 * FallbackBandHalf) \div 2),
                endMm |-> Min(currentDist + segmentLen, (mid2 + 2 * FallbackBandHalf) \div 2)]>>

RECURSIVE ZonesFrom(_, _, _, _, _)
ZonesFrom(parts, currentDist, type, lapCase, h) ==
    IF parts = <<>> THEN <<>>
    ELSE SegmentZones(currentDist, Head(parts), type, lapCase, h)
         \o ZonesFrom(Tail(parts), currentDist + Head(parts), type, lapCase, h)

calculateZones(input, type, lapCase, projSettings) ==
    LET parts == SelectSeq(input, LAMBDA n : n > 0)
    IN  IF parts = <<>> THEN [totalLength |-> 0, zones |-> <<>>]
        ELSE [totalLength |-> SumSeq(parts),
              zones |-> ZonesFrom(parts, 0, type, lapCase, projSettings.beamDepthMm)]

\* MEMBER_TYPE_OPTIONS
MEMBER_TYPE_OPTIONS ==
    << [type |-> "COLUMN", lap |-> "COLUMN_VERTICAL"],
       [type |-> "BEAM", lap |-> "BEAM_TOP"],
       [type |-> "BEAM", lap |-> "BEAM_BOTTOM"] >>

\* handleAddRun: the BarRun built from the form
MakeRun(id, optIdx, dia, qty, geometry, projSettings) ==
    LET structure == MEMBER_TYPE_OPTIONS[optIdx]
        cz == calculateZones(geometry, structure.type, structure.lap, projSettings)
    IN  [id |-> id, barMark |-> id, memberType |-> structure.type, dia |-> dia,
         qtyParallel |-> qty, lapCase |-> structure.lap, geometryInput |-> geometry,
         totalLengthMm |-> cz.totalLength, allowedZones |-> cz.zones]

---------------------------------------------------------------------------
(* src/utils/solver.ts: helpers *)

getLapLength(dia, lapCase, rules) ==
    LET found == {i \in 1..Len(rules) : rules[i].dia = dia /\ rules[i].lapCase = lapCase}
    IN  IF found # {} THEN rules[MinOf(found)].lengthMm ELSE FallbackLapFactor * dia

\* the catalog after a getStockOptions that sorted the item's own list
CatalogSortedInPlace(dia, catalog) ==
    [i \in 1..Len(catalog) |->
        IF catalog[i].dia = dia /\ \A j \in 1..(i - 1) : catalog[j].dia # dia
        THEN [catalog[i] EXCEPT !.stockLengths = SortDesc(@)]
        ELSE catalog[i]]

\* the catalog after getStockOptions: line 14 sorts a spread copy of the
\* item's list, the catalog keeps its order
CatalogAfterStockOptions(dia, catalog) == catalog

getStockOptions(dia, catalog) ==
    LET found == {i \in 1..Len(catalog) : catalog[i].dia = dia}
    IN  IF found = {} \/ catalog[MinOf(found)].stockLengths = <<>> THEN <<DefaultStockLength>>
        ELSE SortDesc(catalog[MinOf(found)].stockLengths)

---------------------------------------------------------------------------
(* src/utils/solver.ts: generateSplicePlan, one iteration of the while loop *)

RunLap(run) == getLapLength(run.dia, run.lapCase, laps)

\* the longest bar taken short by the kerf of the saw
RunMaxStockLessKerf(run) == getStockOptions(run.dia, stock)[1] - settings.kerfMm

RunMaxStock(run) == getStockOptions(run.dia, stock)[1]

\* 2 x spliceCenterTarget = 2 x (currentAbsPos + proposedCutLen - lap/2)
SpliceCenterTarget2(cur, L, lap) == 2 * cur + 2 * L - lap

\* the zone containing the target: run.allowedZones.find(...)
StrictZone(zones, target2) ==
    LET found == {i \in 1..Len(zones) :
                      2 * zones[i].startMm <= target2 /\ 2 * zones[i].endMm >= target2}
    IN  IF found # {} THEN zones[MinOf(found)] ELSE NoZone

\* validZones.reduce((prev, curr) => curr.endMm > prev.endMm ? curr : prev)
RECURSIVE FurthestZone(_, _)
FurthestZone(prev, rest) ==
    IF rest = <<>> THEN prev
    ELSE FurthestZone(IF Head(rest).endMm > prev.endMm THEN Head(rest) ELSE prev, Tail(rest))

\* the zones that end before the stock length runs out
ValidZones(zones, cur, L) == SelectSeq(zones, LAMBDA z : z.endMm < cur + L)

BestZone(zones, cur, L, lap) ==
    LET strict == StrictZone(zones, SpliceCenterTarget2(cur, L, lap))
        validZones == ValidZones(zones, cur, L)
    IN  IF strict # NoZone THEN strict
        ELSE IF Len(validZones) > 0 THEN FurthestZone(Head(validZones), Tail(validZones))
        ELSE NoZone

\* 2 x proposedSpliceCenter without the clamp of lines 94-96
UnclampedSpliceCenter2(bestZone, cur, L, lap) ==
    IF bestZone.endMm - bestZone.startMm > LongZoneWidth
    THEN 2 * bestZone.endMm - lap - 2 * ZoneBuffer
    ELSE bestZone.startMm + bestZone.endMm

\* 2 x proposedSpliceCenter for the chosen zone
ProposedSpliceCenter2(bestZone, cur, L, lap) ==
    LET zoneMid2 == bestZone.startMm + bestZone.endMm
        c2 == IF bestZone.endMm - bestZone.startMm > LongZoneWidth
              THEN 2 * bestZone.endMm - lap - 2 * ZoneBuffer
              ELSE zoneMid2
    IN  IF c2 + lap - 2 * cur > 2 * L THEN 2 * cur + 2 * L - lap ELSE c2

\* Math.floor(actualCutLen / step) * step, then the 1000 mm floor
RoundCut(actualCutLen2, step) ==
    LET r == (actualCutLen2 \div (2 * step)) * step
    IN  IF r < MinPieceLength THEN MinPieceLength ELSE r

\* the cut with line 102 left out: the violation is never flagged
PlanCutUnflagged(run, cur, L, lap, step) ==
    LET bestZone == BestZone(run.allowedZones, cur, L, lap)
        actualCutLen2 == IF bestZone = NoZone THEN 2 * L
                         ELSE ProposedSpliceCenter2(bestZone, cur, L, lap) + lap - 2 * cur
    IN  [zone |-> bestZone, violation |-> FALSE,
         actualCutLen |-> RoundCut(actualCutLen2, step)]

\* the cut of the CONTINUE branch: zone, violation flag, rounded length
PlanCut(run, cur, L, lap, step) ==
    LET bestZone == BestZone(run.allowedZones, cur, L, lap)
        violation == (bestZone = NoZone)
        actualCutLen2 == IF violation THEN 2 * L
                         ELSE ProposedSpliceCenter2(bestZone, cur, L, lap) + lap - 2 * cur
    IN  [zone |-> bestZone, violation |-> violation,
         actualCutLen |-> RoundCut(actualCutLen2, step)]

\* Math.round(x) for x = x2/2
Round2(x2) == (x2 + 1) \div 2

---------------------------------------------------------------------------
(* src/utils/solver.ts: packingPass *)

\* the open bin with the most left over instead of the least
WorstBinIndex(bins, needed) ==
    LET fit == {i \in 1..Len(bins) : bins[i].remaining - needed >= 0}
        best == {i \in fit : \A j \in fit : bins[i].remaining >= bins[j].remaining}
    IN  IF fit = {} THEN 0 ELSE MinOf(best)

\* lines 181-190: the open bin with the least remaining >= needed, the first
\* of them on a tie; 0 when no open bin fits
BestBinIndex(bins, needed) ==
    LET fit == {i \in 1..Len(bins) : bins[i].remaining - needed >= 0}
        best == {i \in fit : \A j \in fit : bins[i].remaining <= bins[j].remaining}
    IN  IF fit = {} THEN 0 ELSE MinOf(best)

\* the used-id bookkeeping ignored: no option counts as consumed
NeverUsed(opt, usedInventoryIds) == FALSE

\* line 201: an inventory option already consumed in this pass
IsUsed(opt, usedInventoryIds) == opt.isInventory /\ opt.id \in usedInventoryIds

\* lines 197-210: the unconsumed option with the least len - needed >= 0, the
\* first of them on a tie; 0 when none fits
BestStockOptIndex(stockOptions, usedInventoryIds, needed) ==
    LET fit == {i \in 1..Len(stockOptions) :
                    /\ ~IsUsed(stockOptions[i], usedInventoryIds)
                    /\ stockOptions[i].len - needed >= 0}
        best == {i \in fit : \A j \in fit : stockOptions[i].len <= stockOptions[j].len}
    IN  IF fit = {} THEN 0 ELSE MinOf(best)

\* the smallest new-stock option instead of the largest
SmallestStockOptIndex(stockOptions) ==
    LET new == {i \in 1..Len(stockOptions) : ~stockOptions[i].isInventory}
        best == {i \in new : \A j \in new : stockOptions[i].len <= stockOptions[j].len}
    IN  IF new = {} THEN 0 ELSE MinOf(best)

\* lines 213-218: the largest new-stock option (the first of the largest);
\* 0 when the options hold no new stock
ForcedStockOptIndex(stockOptions) ==
    LET new == {i \in 1..Len(stockOptions) : ~stockOptions[i].isInventory}
        best == {i \in new : \A j \in new : stockOptions[i].len >= stockOptions[j].len}
    IN  IF new = {} THEN 0 ELSE MinOf(best)

\* the new bin without the forced fallback of lines 212-218
FittingOptIndexOnly(stockOptions, usedInventoryIds, needed) ==
    BestStockOptIndex(stockOptions, usedInventoryIds, needed)

\* lines 196-218: the option a new bin is opened on; 0 when there is none
NewBinOptIndex(stockOptions, usedInventoryIds, needed) ==
    LET fitIdx == BestStockOptIndex(stockOptions, usedInventoryIds, needed)
    IN  IF fitIdx # 0 THEN fitIdx ELSE ForcedStockOptIndex(stockOptions)

\* lines 220-230: the new bin is pushed and an inventory id is marked used
OpenBin(st, opt, len, needed) ==
    [bins |-> Append(st.bins, [stockLength |-> opt.len, remaining |-> opt.len - needed,
                               cuts |-> <<len>>, isInventory |-> opt.isInventory]),
     usedInventoryIds |-> IF opt.isInventory THEN st.usedInventoryIds \cup {opt.id}
                          ELSE st.usedInventoryIds]

\* lines 177-231: the body of the loop over the requests
PlaceRequest(st, req, stockOptions, kerf) ==
    LET needed == req.len + kerf
        bestBinIndex == BestBinIndex(st.bins, needed)
        optIdx == NewBinOptIndex(stockOptions, st.usedInventoryIds, needed)
    IN  IF bestBinIndex # 0
        THEN [st EXCEPT !.bins[bestBinIndex].remaining = @ - needed,
                        !.bins[bestBinIndex].cuts = Append(@, req.len)]
        ELSE IF optIdx # 0
        THEN OpenBin(st, stockOptions[optIdx], req.len, needed)
        ELSE st

RECURSIVE PackFrom(_, _, _, _)
PackFrom(st, requests, stockOptions, kerf) ==
    IF requests = <<>> THEN st
    ELSE PackFrom(PlaceRequest(st, Head(requests), stockOptions, kerf),
                  Tail(requests), stockOptions, kerf)

packingPass(requests, stockOptions, kerf) ==
    PackFrom([bins |-> <<>>, usedInventoryIds |-> {}], requests, stockOptions, kerf)

---------------------------------------------------------------------------
(* src/utils/solver.ts: consumeInventorySequential *)

\* lines 251-255: inventory flattened to units, unit i of an item has id <<id, i>>
RECURSIVE FlattenInventory(_)
FlattenInventory(inv) ==
    IF inv = <<>> THEN <<>>
    ELSE [i \in 1..Max(Head(inv).quantity, 0) |->
              [len |-> Head(inv).lengthMm, id |-> <<Head(inv).id, i - 1>>]]
         \o FlattenInventory(Tail(inv))

\* insertion of x into a sequence ascending in len, before the elements equal to it
RECURSIVE InsertAscLen(_, _)
InsertAscLen(x, s) ==
    IF s = <<>> THEN <<x>>
    ELSE IF x.len <= Head(s).len THEN <<x>> \o s
    ELSE <<Head(s)>> \o InsertAscLen(x, Tail(s))

\* sort((a,b) => a.len - b.len): ascending in len, stable
RECURSIVE SortAscLen(_)
SortAscLen(s) ==
    IF s = <<>> THEN <<>> ELSE InsertAscLen(Head(s), SortAscLen(Tail(s)))

\* insertion of x into a sequence descending in len, before the elements equal to it
RECURSIVE InsertDescLen(_, _)
InsertDescLen(x, s) ==
    IF s = <<>> THEN <<x>>
    ELSE IF x.len >= Head(s).len THEN <<x>> \o s
    ELSE <<Head(s)>> \o InsertDescLen(x, Tail(s))

\* sort((a,b) => b.len - a.len): descending in len, stable
RECURSIVE SortDescLen(_)
SortDescLen(s) ==
    IF s = <<>> THEN <<>> ELSE InsertDescLen(Head(s), SortDescLen(Tail(s)))

\* lines 286-295: the unused offcut with the least len - needed >= 0, the first
\* of them on a tie; 0 when none fits
\* the unused offcut with the most left over instead of the least
LargestOffcutIndex(availableOffcuts, usedOffcutIndices, needed) ==
    LET fit == {i \in 1..Len(availableOffcuts) :
                    /\ i \notin usedOffcutIndices
                    /\ availableOffcuts[i].len - needed >= 0}
        best == {i \in fit : \A j \in fit : availableOffcuts[i].len >= availableOffcuts[j].len}
    IN  IF fit = {} THEN 0 ELSE MinOf(best)

BestOffcutIndex(availableOffcuts, usedOffcutIndices, needed) ==
    LET fit == {i \in 1..Len(availableOffcuts) :
                    /\ i \notin usedOffcutIndices
                    /\ availableOffcuts[i].len - needed >= 0}
        best == {i \in fit : \A j \in fit : availableOffcuts[i].len <= availableOffcuts[j].len}
    IN  IF fit = {} THEN 0 ELSE MinOf(best)

\* lines 265-308: the body of the loop over the sorted requests
ConsumeRequest(st, req, availableOffcuts, kerf) ==
    LET needed == req.len + kerf
        bestBinIdx == BestBinIndex(st.inventoryBins, needed)
        bestOffcutIndex == BestOffcutIndex(availableOffcuts, st.usedOffcutIndices, needed)
    IN  IF bestBinIdx # 0
        THEN [st EXCEPT !.inventoryBins[bestBinIdx].remaining = @ - needed,
                        !.inventoryBins[bestBinIdx].cuts = Append(@, req.len)]
        ELSE IF bestOffcutIndex # 0
        THEN [st EXCEPT !.usedOffcutIndices = @ \cup {bestOffcutIndex},
                        !.inventoryBins =
                            Append(@, [stockLength |-> availableOffcuts[bestOffcutIndex].len,
                                       remaining |-> availableOffcuts[bestOffcutIndex].len - needed,
                                       cuts |-> <<req.len>>, isInventory |-> TRUE])]
        ELSE [st EXCEPT !.remainingRequests = Append(@, req)]

RECURSIVE ConsumeFrom(_, _, _, _)
ConsumeFrom(st, requests, availableOffcuts, kerf) ==
    IF requests = <<>> THEN st
    ELSE ConsumeFrom(ConsumeRequest(st, Head(requests), availableOffcuts, kerf),
                     Tail(requests), availableOffcuts, kerf)

consumeInventorySequential(requests, inv, projSettings) ==
    ConsumeFrom([inventoryBins |-> <<>>, remainingRequests |-> <<>>, usedOffcutIndices |-> {}],
                SortDescLen(requests), SortAscLen(FlattenInventory(inv)), projSettings.kerfMm)

---------------------------------------------------------------------------
(* src/utils/solver.ts: optimizeDiaGroup and performMonteCarlo *)

NewStockOpts(stockOptions) ==
    [i \in 1..Len(stockOptions) |-> [len |-> stockOptions[i], isInventory |-> FALSE, id |-> <<>>]]

InventoryOpts(inv) ==
    LET units == FlattenInventory(inv)
    IN  [i \in 1..Len(units) |-> [len |-> units[i].len, isInventory |-> TRUE, id |-> units[i].id]]

\* lines 338-348: new stock first, then the inventory units
CombinedOptions(stockOptions, inv) == NewStockOpts(stockOptions) \o InventoryOpts(inv)

\* lines 362-364
Iterations(level) ==
    IF level = "DEEP" THEN 200 ELSE IF level = "BALANCED" THEN 50 ELSE 1

\* lines 372 and 386: the metric of a pass, the sum of remaining
\* the metric taken over the new bars only, the inventory bins left out
RECURSIVE WasteOfNewStock(_)
WasteOfNewStock(bins) ==
    IF bins = <<>> THEN 0
    ELSE (IF Head(bins).isInventory THEN 0 ELSE Head(bins).remaining)
         + WasteOfNewStock(Tail(bins))

RECURSIVE Waste(_)
Waste(bins) == IF bins = <<>> THEN 0 ELSE Head(bins).remaining + Waste(Tail(bins))

\* lines 378-383: the orders a Fisher-Yates shuffle of the requests can produce
Shuffles(requests) ==
    {[i \in 1..Len(requests) |-> requests[p[i]]] : p \in Permutations(1..Len(requests))}

---------------------------------------------------------------------------
(* src/utils/solver.ts: optimizeCutting *)

\* lines 418-427: countForThisGroup requests per piece, piece after piece
RECURSIVE PieceRequests(_, _, _)
PieceRequests(pieces, dia, count) ==
    IF pieces = <<>> THEN <<>>
    ELSE [i \in 1..count |-> [dia |-> dia, len |-> Head(pieces).lengthMm]]
         \o PieceRequests(Tail(pieces), dia, count)

\* lines 410-429: the requests of the splice plan; the run is found by its id
RECURSIVE FlattenSplicePlan(_, _)
FlattenSplicePlan(splicePlan, allRuns) ==
    IF splicePlan = <<>> THEN <<>>
    ELSE LET sp == Head(splicePlan)
             found == {i \in 1..Len(allRuns) : allRuns[i].id = sp.runId}
             run == allRuns[MinOf(found)]
         IN  (IF found # {} /\ run.qtyParallel > 0
              THEN PieceRequests(sp.pieces, run.dia, run.qtyParallel)
              ELSE <<>>)
             \o FlattenSplicePlan(Tail(splicePlan), allRuns)

\* lines 432-441: qty requests per direct piece
RECURSIVE FlattenDirectPieces(_)
FlattenDirectPieces(pieces) ==
    IF pieces = <<>> THEN <<>>
    ELSE [i \in 1..Max(Head(pieces).qty, 0) |->
              [dia |-> Head(pieces).dia, len |-> Head(pieces).lengthMm]]
         \o FlattenDirectPieces(Tail(pieces))

FlattenRequests(splicePlan, pieces, allRuns) ==
    FlattenSplicePlan(splicePlan, allRuns) \o FlattenDirectPieces(pieces)

\* a finite set of integers as an ascending sequence
RECURSIVE AscSeq(_)
AscSeq(S) == IF S = {} THEN <<>> ELSE <<MinOf(S)>> \o AscSeq(S \ {MinOf(S)})

\* line 450
UniqueDias(requests) == AscSeq({requests[i].dia : i \in 1..Len(requests)})

RequestsOfDia(requests, dia) == SelectSeq(requests, LAMBDA r : r.dia = dia)
InventoryOfDia(inv, dia) == SelectSeq(inv, LAMBDA i : i.dia = dia)

\* the pattern map keyed by stock length and cuts only, the source left out
RECURSIVE PatternMapAnySource(_, _)
PatternMapAnySource(patterns, bins) ==
    IF bins = <<>> THEN patterns
    ELSE LET b == Head(bins)
             key == <<b.stockLength, SortDesc(b.cuts)>>
             at == {i \in 1..Len(patterns) : patterns[i].key = key}
         IN  PatternMapAnySource(
                 IF at # {}
                 THEN [patterns EXCEPT ![MinOf(at)].count = @ + 1]
                 ELSE Append(patterns, [key |-> key, count |-> 1, cuts |-> SortDesc(b.cuts),
                                        remaining |-> Max(0, b.remaining),
                                        stock |-> b.stockLength,
                                        isInventory |-> b.isInventory]),
                 Tail(bins))

\* lines 473-488: the pattern map, in insertion order; a bin joining an
\* existing pattern only raises its count
RECURSIVE PatternMap(_, _)
PatternMap(patterns, bins) ==
    IF bins = <<>> THEN patterns
    ELSE LET b == Head(bins)
             key == <<b.isInventory, b.stockLength, SortDesc(b.cuts)>>
             at == {i \in 1..Len(patterns) : patterns[i].key = key}
         IN  PatternMap(
                 IF at # {}
                 THEN [patterns EXCEPT ![MinOf(at)].count = @ + 1]
                 ELSE Append(patterns, [key |-> key, count |-> 1, cuts |-> SortDesc(b.cuts),
                                        remaining |-> Max(0, b.remaining),
                                        stock |-> b.stockLength,
                                        isInventory |-> b.isInventory]),
                 Tail(bins))

\* the item with the test of line 491 the wrong way round
CuttingPlanItemSwapped(dia, val, minLeftoverMm) ==
    LET isOffcut == val.remaining < minLeftoverMm
    IN  [dia |-> dia, stockLength |-> val.stock, count |-> val.count, cuts |-> val.cuts,
         waste |-> IF isOffcut THEN 0 ELSE val.remaining,
         offcut |-> IF isOffcut THEN val.remaining ELSE 0,
         sourceType |-> IF val.isInventory THEN "EXISTING_INVENTORY" ELSE "NEW_STOCK"]

\* lines 490-501
CuttingPlanItem(dia, val, minLeftoverMm) ==
    LET isOffcut == val.remaining >= minLeftoverMm
    IN  [dia |-> dia, stockLength |-> val.stock, count |-> val.count, cuts |-> val.cuts,
         waste |-> IF isOffcut THEN 0 ELSE val.remaining,
         offcut |-> IF isOffcut THEN val.remaining ELSE 0,
         sourceType |-> IF val.isInventory THEN "EXISTING_INVENTORY" ELSE "NEW_STOCK"]

CuttingPlanItems(dia, bins, minLeftoverMm) ==
    LET patterns == PatternMap(<<>>, bins)
    IN  [i \in 1..Len(patterns) |-> CuttingPlanItem(dia, patterns[i], minLeftoverMm)]

\* the bins counted by stock length, the inventory bins with the rest
RECURSIVE AllBinGroups(_, _)
AllBinGroups(groups, bins) ==
    IF bins = <<>> THEN groups
    ELSE LET b == Head(bins)
             at == {i \in 1..Len(groups) : groups[i].len = b.stockLength}
         IN  AllBinGroups(
                 IF at # {} THEN [groups EXCEPT ![MinOf(at)].qty = @ + 1]
                 ELSE Append(groups, [len |-> b.stockLength, qty |-> 1]),
                 Tail(bins))

\* lines 504-509: new-stock bins counted by stock length, in insertion order
RECURSIVE StockLenGroups(_, _)
StockLenGroups(groups, bins) ==
    IF bins = <<>> THEN groups
    ELSE LET b == Head(bins)
             at == {i \in 1..Len(groups) : groups[i].len = b.stockLength}
         IN  StockLenGroups(
                 IF b.isInventory THEN groups
                 ELSE IF at # {} THEN [groups EXCEPT ![MinOf(at)].qty = @ + 1]
                 ELSE Append(groups, [len |-> b.stockLength, qty |-> 1]),
                 Tail(bins))

\* lines 511-518
ProcurementItems(dia, bins) ==
    LET groups == StockLenGroups(<<>>, bins)
    IN  [i \in 1..Len(groups) |->
            [dia |-> dia, stockLength |-> groups[i].len, quantity |-> groups[i].qty,
             totalLength |-> groups[i].qty * groups[i].len]]

RECURSIVE SumStockLength(_)
SumStockLength(bins) ==
    IF bins = <<>> THEN 0 ELSE Head(bins).stockLength + SumStockLength(Tail(bins))

RECURSIVE SumCuts(_)
SumCuts(bins) == IF bins = <<>> THEN 0 ELSE SumSeq(Head(bins).cuts) + SumCuts(Tail(bins))

\* Math.round(a / b) for b > 0
RoundDiv(a, b) == (2 * a + b) \div (2 * b)

\* lines 521-522 and 561-565.  weight162 is 162000 x the weight in kg; the
\* weight and the percentage are returned in hundredths
Summary(weight162, inputLength, partsLength) ==
    LET totalWaste == inputLength - partsLength
    IN  [totalWeight |-> RoundDiv(weight162, 1620),
         totalWaste |-> totalWaste,
         wastePercent |-> IF inputLength > 0 THEN RoundDiv(10000 * totalWaste, inputLength)
                          ELSE 0]

---------------------------------------------------------------------------
(* The inputs.  PlanSpec follows generateSplicePlan over runs in variety.    *)
(* Spec follows the whole of runSolver over three families of inputs: a few  *)
(* runs with rules that may not fit the stock (solve), requests, inventory    *)
(* and strategies in variety under FAST (cutting), and a few requests under   *)
(* BALANCED and DEEP (Monte Carlo).                                           *)

SegmentLengths == {600, 3600, 12000}
Geometries == UNION {[1..n -> SegmentLengths] : n \in 0..MaxSegments}
ShortGeometries == {<<600>>, <<12000>>}
TypeOptions == 1..Len(MEMBER_TYPE_OPTIONS)

BaseSettings ==
    [roundingStepMm |-> 1, kerfMm |-> 5, minLeftoverMm |-> 0, beamDepthMm |-> 600,
     optimizationLevel |-> "FAST", inventoryStrategy |-> "SEQUENTIAL"]

PlanningSettings == {[BaseSettings EXCEPT !.roundingStepMm = r] : r \in {1, 700}}

PlanningCatalogs ==
    { <<>>,
      <<[dia |-> 16, stockLengths |-> <<6000>>]>>,
      <<[dia |-> 16, stockLengths |-> <<6000, 12000>>]>> }

PlanningRules ==
    { <<>>,
      <<[dia |-> 16, lapCase |-> "COLUMN_VERTICAL", lengthMm |-> 401],
        [dia |-> 16, lapCase |-> "BEAM_TOP", lengthMm |-> 6000]>>,
      <<[dia |-> 16, lapCase |-> "BEAM_BOTTOM", lengthMm |-> 1200]>> }

\* the runs of the planning family: ids are distinct, as handleAddRun makes
\* them; the runs after the first have one segment
PlanningRuns(projSettings) ==
    UNION { { [i \in 1..n |-> MakeRun(i, o[i], 16, 1, g[i], projSettings)] :
                o \in [1..n -> TypeOptions],
                g \in {h \in [1..n -> Geometries] : \A i \in 2..n : h[i] \in ShortGeometries} }
            : n \in 1..MaxRuns }

CuttingSettings ==
    {[BaseSettings EXCEPT !.kerfMm = k[1], !.minLeftoverMm = k[2], !.inventoryStrategy = st] :
        k \in {<<0, 0>>, <<5, 1000>>}, st \in {"SEQUENTIAL", "MIXED"}}

MonteCarloSettings ==
    {[BaseSettings EXCEPT !.kerfMm = 0, !.inventoryStrategy = st, !.optimizationLevel = lv] :
        st \in {"SEQUENTIAL", "MIXED"}, lv \in {"BALANCED", "DEEP"}}

CuttingCatalogs ==
    { <<[dia |-> 16, stockLengths |-> <<5000>>]>>,
      <<[dia |-> 16, stockLengths |-> <<3000, 6000>>]>> }

\* no run, or one column of one 6000 or two 2400 storeys, qtyParallel bars
CuttingRuns(projSettings) ==
    {<<>>} \cup { <<MakeRun(1, 1, 16, q, g, projSettings)>> :
                    q \in 1..MaxQty, g \in {<<6000>>, <<2400, 2400>>} }

\* the kinds of direct pieces: <<dia, lengthMm>>; no catalog entry for dia 20
DirectKinds == {<<16, 2000>>, <<16, 3000>>, <<20, 13000>>}

\* the kinds of a project of fixed pieces of dia 16: three lengths that fit
\* a bar and one longer than every bar of the catalog
PieceKinds == {<<16, 2000>>, <<16, 2500>>, <<16, 3000>>, <<16, 7000>>}

\* the catalogs of the cutting family, and one of 3000 bars only
PieceCatalogs == CuttingCatalogs \cup {<<[dia |-> 16, stockLengths |-> <<3000>>]>>}

DirectPiecesOver(kinds) ==
    UNION { { [i \in 1..n |-> [id |-> i, barMark |-> i, dia |-> k[i][1],
                               lengthMm |-> k[i][2], qty |-> q[i]]] :
                k \in [1..n -> kinds], q \in [1..n -> 1..MaxQty] }
            : n \in 0..MaxDirect }

\* an offcut item of 4000 in 0..MaxInvQty units and one of 3000, a length the
\* catalog also sells, in 0..1 units
Inventories ==
    { << [id |-> 1, dia |-> 16, lengthMm |-> 4000, quantity |-> q1],
         [id |-> 2, dia |-> 16, lengthMm |-> 3000, quantity |-> q2] >> :
        q1 \in 0..MaxInvQty, q2 \in 0..1 }

NumRequests(splicePieces, pieces) ==
    Len(FlattenDirectPieces(pieces)) + splicePieces

\* no workbook saved yet
NoFile ==
    [Settings |-> <<>>, Stock |-> <<>>, Inventory |-> <<>>, Rules |-> <<>>,
     BarRuns |-> <<>>, FixedPieces |-> <<>>]

InitPlanning ==
    /\ settings \in PlanningSettings
    /\ stock \in PlanningCatalogs
    /\ laps \in PlanningRules
    /\ runs \in PlanningRuns(settings)
    /\ directPieces = <<>>
    /\ inventory = <<>>

\* the spans of a continuous member, each a multiple of 12: its thirds and
\* quarters are whole
SpanLengths == {1200, 4800, 9000}
SpanGeometries == UNION {[1..n -> SpanLengths] : n \in 1..MaxSpans}

\* rules for dia 16: none (50 x dia), or laps of half a 12000 bar
SpanRules ==
    { <<>>,
      <<[dia |-> 16, lapCase |-> "COLUMN_VERTICAL", lengthMm |-> 6000],
        [dia |-> 16, lapCase |-> "BEAM_BOTTOM", lengthMm |-> 6000]>> }

\* one member of up to MaxSpans spans
InitSpans ==
    /\ settings \in PlanningSettings
    /\ stock \in PlanningCatalogs
    /\ laps \in SpanRules
    /\ runs \in { <<MakeRun(1, o, 16, 1, g, settings)>> :
                    o \in TypeOptions, g \in SpanGeometries }
    /\ directPieces = <<>>
    /\ inventory = <<>>

\* a catalog of bars shorter than the 1000 mm floor of a cut, with laps
\* shorter than the bars
ShortCatalog == <<[dia |-> 16, stockLengths |-> <<500>>]>>

ShortRules ==
    { <<[dia |-> 16, lapCase |-> "COLUMN_VERTICAL", lengthMm |-> 401],
        [dia |-> 16, lapCase |-> "BEAM_TOP", lengthMm |-> 400],
        [dia |-> 16, lapCase |-> "BEAM_BOTTOM", lengthMm |-> 100]>>,
      <<[dia |-> 16, lapCase |-> "COLUMN_VERTICAL", lengthMm |-> 100],
        [dia |-> 16, lapCase |-> "BEAM_TOP", lengthMm |-> 499],
        [dia |-> 16, lapCase |-> "BEAM_BOTTOM", lengthMm |-> 500]>> }

InitShort ==
    /\ settings \in PlanningSettings
    /\ stock = ShortCatalog
    /\ laps \in ShortRules
    /\ runs \in { <<MakeRun(1, o, 16, 1, g, settings)>> : o \in TypeOptions, g \in Geometries }
    /\ directPieces = <<>>
    /\ inventory = <<>>

\* rules for dia 16: none (50 x dia), or a beam-top lap of a whole 6000 bar
SolveRules == {<<>>, <<[dia |-> 16, lapCase |-> "BEAM_TOP", lengthMm |-> 6000]>>}

\* one-storey columns and one-span beams
SolveRuns(projSettings) ==
    UNION { { [i \in 1..n |-> MakeRun(i, o[i], 16, 1, <<2400>>, projSettings)] :
                o \in [1..n -> {1, 2}] }
            : n \in 1..MaxRuns }

InitSolve ==
    /\ settings = BaseSettings
    /\ stock \in CuttingCatalogs \cup {<<>>}
    /\ laps \in SolveRules
    /\ runs \in SolveRuns(settings)
    /\ directPieces = <<>>
    /\ inventory = <<>>

InitCutting ==
    /\ settings \in CuttingSettings
    /\ stock \in CuttingCatalogs
    /\ laps = <<>>
    /\ runs \in CuttingRuns(settings)
    /\ directPieces \in DirectPiecesOver(DirectKinds)
    /\ inventory \in Inventories
    /\ NumRequests(IF runs = <<>> THEN 0 ELSE runs[1].qtyParallel, directPieces) <= MaxRequests

InitMonteCarlo ==
    /\ settings \in MonteCarloSettings
    /\ stock = <<[dia |-> 16, stockLengths |-> <<5000>>]>>
    /\ laps = <<>>
    /\ runs = <<>>
    /\ directPieces \in DirectPiecesOver({<<16, 2000>>, <<16, 3000>>})
    /\ Len(directPieces) = 2
    /\ inventory \in Inventories
    /\ inventory[2].quantity = 0
    /\ NumRequests(0, directPieces) <= MaxRequests

InitState ==
    /\ pc = "start"
    /\ file = NoFile
    /\ error = "none"
    /\ runIdx = 1
    /\ groupPieces = <<>>
    /\ currentAbsPos = 0
    /\ remainingTotal = 0
    /\ plan = <<>>
    /\ warnings = <<>>
    /\ allRequests = <<>>
    /\ diaIdx = 1
    /\ inventoryBins = <<>>
    /\ mcRequests = <<>>
    /\ mcOptions = <<>>
    /\ mcIter = 0
    /\ bestBins = <<>>
    /\ minWaste = 0
    /\ seedWaste = 0
    /\ diaBins = <<>>
    /\ cuttingPlan = <<>>
    /\ procurement = <<>>
    /\ totals = [inputLength |-> 0, partsLength |-> 0, weight162 |-> 0]
    /\ result = NoResult

Init == (InitSolve \/ InitCutting \/ InitMonteCarlo) /\ InitState

InitPlan == InitPlanning /\ InitState

---------------------------------------------------------------------------
(* runSolver: generateSplicePlan *)

\* a throw anywhere inside runSolver: the promise rejects, nothing is returned
Throw(e) ==
    /\ pc' = "error"
    /\ error' = e
    /\ result' = NoResult

\* runSolver, lines 542-546: the catalog check, then generateSplicePlan begins
CheckCatalog ==
    /\ pc = "start"
    /\ IF Len(stock) = 0
       THEN Throw("EmptyCatalog") /\ UNCHANGED spliceVars
       ELSE /\ pc' = "forEachRun"
            /\ runIdx' = 1
            /\ plan' = <<>>
            /\ warnings' = <<>>
            /\ UNCHANGED <<error, result, groupPieces, currentAbsPos, remainingTotal>>
    /\ UNCHANGED <<inputVars, cutVars>>

\* the guard with > in place of >=
LapFitsOrEqual(lap, maxStock) == ~(lap > maxStock)

\* the guard of line 34
LapFits(lap, maxStock) == ~(lap >= maxStock)

\* generateSplicePlan, lines 28-43: the head of the forEach callback
BeginRun ==
    /\ pc = "forEachRun"
    /\ runIdx <= Len(runs)
    /\ LET run == runs[runIdx]
       IN  IF ~LapFits(RunLap(run), RunMaxStock(run))
           THEN Throw("LapGeMaxStock")
                /\ UNCHANGED spliceVars
           ELSE /\ pc' = "while"
                /\ groupPieces' = <<>>
                /\ currentAbsPos' = 0
                /\ remainingTotal' = run.totalLengthMm
                /\ UNCHANGED <<error, result, runIdx, plan, warnings>>
    /\ stock' = CatalogAfterStockOptions(runs[runIdx].dia, stock)
    /\ UNCHANGED <<passedInputs, cutVars>>

\* lines 50-54: the piece of the FINISH branch
LastPiece(cur, remaining) ==
    [lengthMm |-> remaining, startMm |-> cur, endMm |-> cur + remaining]

\* generateSplicePlan, lines 48-56: the FINISH branch
FinalPiece ==
    /\ pc = "while"
    /\ remainingTotal > 0
    /\ remainingTotal <= RunMaxStock(runs[runIdx])
    /\ groupPieces' = Append(groupPieces, LastPiece(currentAbsPos, remainingTotal))
    /\ remainingTotal' = 0
    /\ currentAbsPos' = currentAbsPos + remainingTotal'
    /\ UNCHANGED <<inputVars, cutVars, pc, error, result, runIdx, plan, warnings>>

\* the warning pushed at line 111
Warning(run, cur, actualCutLen, lap, L) ==
    [barMark |-> run.barMark, spliceLoc |-> Round2(2 * cur + 2 * actualCutLen - lap),
     stockLength |-> L]

\* the piece placed from the origin instead of the cursor
CutPieceFromOrigin(cur, actualCutLen) ==
    [lengthMm |-> actualCutLen, startMm |-> 0, endMm |-> actualCutLen]

\* lines 114-118: the piece of the CONTINUE branch
CutPieceOf(cur, actualCutLen) ==
    [lengthMm |-> actualCutLen, startMm |-> cur, endMm |-> cur + actualCutLen]

\* the cursor moved by the whole cut, the lap not taken back
AdvanceByWholeCut(actualCutLen, lap) == actualCutLen

\* line 120
AdvanceBy(actualCutLen, lap) == actualCutLen - lap

\* the loop protection taken out
NoProgressNever(advanceBy) == FALSE

\* line 123: the infinite loop protection
NoProgress(advanceBy) == advanceBy <= 0

\* generateSplicePlan, lines 58-128: the CONTINUE branch
CutPiece ==
    /\ pc = "while"
    /\ remainingTotal > 0
    /\ remainingTotal > RunMaxStock(runs[runIdx])
    /\ LET run == runs[runIdx]
           lap == RunLap(run)
           L == RunMaxStock(run)
           cut == PlanCut(run, currentAbsPos, L, lap, settings.roundingStepMm)
           advanceBy == AdvanceBy(cut.actualCutLen, lap)
       IN  IF NoProgress(advanceBy)
           THEN Throw("InfiniteLoop")
                /\ UNCHANGED spliceVars
           ELSE /\ warnings' = IF cut.violation
                               THEN Append(warnings,
                                           Warning(run, currentAbsPos, cut.actualCutLen, lap, L))
                               ELSE warnings
                /\ groupPieces' = Append(groupPieces, CutPieceOf(currentAbsPos, cut.actualCutLen))
                /\ remainingTotal' = remainingTotal - advanceBy
                /\ currentAbsPos' = currentAbsPos + advanceBy
                /\ UNCHANGED <<pc, error, result, runIdx, plan>>
    /\ UNCHANGED <<inputVars, cutVars>>

\* generateSplicePlan, lines 45 and 132-137: the loop ends, the run's item is pushed
EndRun ==
    /\ pc = "while"
    /\ ~(remainingTotal > 0)
    /\ plan' = Append(plan, [runId |-> runs[runIdx].id, barMark |-> runs[runIdx].barMark,
                             groupId |-> 0, pieces |-> groupPieces])
    /\ runIdx' = runIdx + 1
    /\ pc' = "forEachRun"
    /\ UNCHANGED <<inputVars, cutVars, error, result, groupPieces, currentAbsPos,
                   remainingTotal, warnings>>

---------------------------------------------------------------------------
(* runSolver: optimizeCutting *)

\* generateSplicePlan returns (line 140); optimizeCutting flattens the
\* requests (lines 407-450)
Flatten ==
    /\ pc = "forEachRun"
    /\ runIdx > Len(runs)
    /\ allRequests' = FlattenRequests(plan, directPieces, runs)
    /\ diaIdx' = 1
    /\ cuttingPlan' = <<>>
    /\ procurement' = <<>>
    /\ totals' = [inputLength |-> 0, partsLength |-> 0, weight162 |-> 0]
    /\ pc' = "forEachDia"
    /\ UNCHANGED <<inputVars, error, result, spliceVars, inventoryBins, mcVars, diaBins>>

Dia == UniqueDias(allRequests)[diaIdx]

\* optimizeCutting lines 453-457 and optimizeDiaGroup lines 324-351, up to
\* the call of performMonteCarlo (or the return of the inventory diaBins alone)
BeginDia ==
    /\ pc = "forEachDia"
    /\ diaIdx <= Len(UniqueDias(allRequests))
    /\ LET stockOptions == getStockOptions(Dia, stock)
           requests == RequestsOfDia(allRequests, Dia)
           relevantInventory == InventoryOfDia(inventory, Dia)
           seq == consumeInventorySequential(requests, relevantInventory, settings)
       IN  IF settings.inventoryStrategy = "SEQUENTIAL"
           THEN /\ inventoryBins' = seq.inventoryBins
                /\ IF Len(seq.remainingRequests) = 0
                   THEN /\ diaBins' = seq.inventoryBins
                        /\ pc' = "aggregate"
                        /\ UNCHANGED <<mcRequests, mcOptions>>
                   ELSE /\ mcRequests' = seq.remainingRequests
                        /\ mcOptions' = NewStockOpts(stockOptions)
                        /\ pc' = "monteCarlo"
                        /\ UNCHANGED diaBins
           ELSE /\ inventoryBins' = <<>>
                /\ mcRequests' = requests
                /\ mcOptions' = CombinedOptions(stockOptions, relevantInventory)
                /\ pc' = "monteCarlo"
                /\ UNCHANGED diaBins
    /\ stock' = CatalogAfterStockOptions(Dia, stock)
    /\ UNCHANGED <<passedInputs, error, result, spliceVars, allRequests, diaIdx, mcIter,
                   bestBins, minWaste, seedWaste, cuttingPlan, procurement, totals>>

\* performMonteCarlo, lines 362-375: the pass over the requests sorted descending
SeedPass ==
    /\ pc = "monteCarlo"
    /\ LET initialRes == packingPass(SortDescLen(mcRequests), mcOptions, settings.kerfMm)
       IN  /\ bestBins' = initialRes.bins
           /\ minWaste' = Waste(initialRes.bins)
           /\ seedWaste' = Waste(initialRes.bins)
    /\ mcIter' = 0
    /\ pc' = "mcLoop"
    /\ UNCHANGED <<inputVars, error, result, spliceVars, allRequests, diaIdx, inventoryBins,
                   mcRequests, mcOptions, diaBins, cuttingPlan, procurement, totals>>

\* the comparison of line 388 turned round
Worse(waste, best) == waste > best

\* lines 388-391
Better(waste, best) == waste < best

\* performMonteCarlo, lines 377-392: one iteration, on any order the shuffle
\* of Math.random can produce
ShufflePass ==
    /\ pc = "mcLoop"
    /\ mcIter < Iterations(settings.optimizationLevel)
    /\ \E shuffled \in Shuffles(mcRequests) :
          LET res == packingPass(shuffled, mcOptions, settings.kerfMm)
              waste == Waste(res.bins)
          IN  IF Better(waste, minWaste)
              THEN minWaste' = waste /\ bestBins' = res.bins
              ELSE UNCHANGED <<minWaste, bestBins>>
    /\ mcIter' = mcIter + 1
    /\ UNCHANGED <<inputVars, pc, error, result, spliceVars, allRequests, diaIdx,
                   inventoryBins, mcRequests, mcOptions, seedWaste, diaBins, cuttingPlan,
                   procurement, totals>>

\* performMonteCarlo returns (line 394) to optimizeDiaGroup (lines 333, 352)
EndMonteCarlo ==
    /\ pc = "mcLoop"
    /\ ~(mcIter < Iterations(settings.optimizationLevel))
    /\ diaBins' = inventoryBins \o bestBins
    /\ pc' = "aggregate"
    /\ UNCHANGED <<inputVars, error, result, spliceVars, allRequests, diaIdx, inventoryBins,
                   mcVars, cuttingPlan, procurement, totals>>

\* optimizeCutting, lines 460-518: the diaBins of the diameter are reported
Aggregate ==
    /\ pc = "aggregate"
    /\ totals' = [inputLength |-> totals.inputLength + SumStockLength(diaBins),
                  partsLength |-> totals.partsLength + SumCuts(diaBins),
                  weight162 |-> totals.weight162 + Dia * Dia * SumStockLength(diaBins)]
    /\ cuttingPlan' = cuttingPlan \o CuttingPlanItems(Dia, diaBins, settings.minLeftoverMm)
    /\ procurement' = procurement \o ProcurementItems(Dia, diaBins)
    /\ diaIdx' = diaIdx + 1
    /\ pc' = "forEachDia"
    /\ UNCHANGED <<inputVars, error, result, spliceVars, allRequests, inventoryBins,
                   mcVars, diaBins>>

\* optimizeCutting returns (lines 521-530) and runSolver resolves (lines 557-567)
Return ==
    /\ pc = "forEachDia"
    /\ ~(diaIdx <= Len(UniqueDias(allRequests)))
    /\ result' = [kind |-> "result", splicePlan |-> plan, cuttingPlan |-> cuttingPlan,
                  procurement |-> procurement,
                  summary |-> Summary(totals.weight162, totals.inputLength, totals.partsLength),
                  warnings |-> warnings]
    /\ pc' = "done"
    /\ UNCHANGED <<inputVars, error, spliceVars, cutVars>>

Next ==
    \/ CheckCatalog
    \/ BeginRun
    \/ FinalPiece
    \/ CutPiece
    \/ EndRun
    \/ Flatten
    \/ BeginDia
    \/ SeedPass
    \/ ShufflePass
    \/ EndMonteCarlo
    \/ Aggregate
    \/ Return

Spec == Init /\ [][Next]_vars

---------------------------------------------------------------------------
(* src/utils/exportUtils.ts and handleFileChange of src/App.tsx: the project
   file.  A sheet is the sequence of its rows; json_to_sheet and
   sheet_to_json carry the numbers and strings of a row as they are. *)

\* exportProjectToExcel: the row of the Settings sheet
SettingsToExport(projSettings) ==
    [roundingStepMm |-> projSettings.roundingStepMm, kerfMm |-> projSettings.kerfMm,
     minLeftoverMm |-> projSettings.minLeftoverMm, beamDepthMm |-> projSettings.beamDepthMm,
     optimizationLevel |-> projSettings.optimizationLevel,
     inventoryStrategy |-> projSettings.inventoryStrategy]

\* exportProjectToExcel: a row of the Stock sheet; lengths is the joined text
FlatStock(s) == [dia |-> s.dia, lengths |-> s.stockLengths]

\* exportProjectToExcel: a row of the BarRuns sheet
FlatRun(r) ==
    [id |-> r.id, barMark |-> r.barMark, memberType |-> r.memberType, dia |-> r.dia,
     qty |-> r.qtyParallel, geometry |-> r.geometryInput]

\* importProjectFromExcel: the catalog item of a Stock row; an empty lengths
\* text is falsy
ImportStock(r) ==
    [dia |-> r.dia,
     stockLengths |-> IF r.lengths = <<>> THEN <<ImportDefaultLength>> ELSE r.lengths]

\* importProjectFromExcel: the BarRun of a BarRuns row; the ids handleAddRun
\* makes are not empty, so `r.id ||` keeps them
ImportRun(r) ==
    [id |-> r.id, barMark |-> r.barMark, memberType |-> r.memberType, dia |-> r.dia,
     qtyParallel |-> r.qty, geometryInput |-> r.geometry, totalLengthMm |-> 0,
     allowedZones |-> <<>>,
     lapCase |-> IF r.memberType = "COLUMN" THEN "COLUMN_VERTICAL" ELSE "BEAM_TOP"]

\* handleFileChange: a rehydrated run; r.lapCase is never empty after ImportRun
Rehydrate(r, projSettings) ==
    LET lc == r.lapCase
        cz == calculateZones(r.geometryInput, r.memberType, lc, projSettings)
    IN  [r EXCEPT !.totalLengthMm = cz.totalLength, !.allowedZones = cz.zones,
                  !.lapCase = lc]

\* handleExportExcel: the input sheets of the workbook
ExportProject ==
    /\ pc = "start"
    /\ file' = [Settings |-> <<SettingsToExport(settings)>>,
                Stock |-> [i \in 1..Len(stock) |-> FlatStock(stock[i])],
                Inventory |-> inventory,
                Rules |-> laps,
                BarRuns |-> [i \in 1..Len(runs) |-> FlatRun(runs[i])],
                FixedPieces |-> directPieces]
    /\ pc' = "exported"
    /\ UNCHANGED <<settings, stock, laps, runs, directPieces, inventory>>
    /\ UNCHANGED <<error, spliceVars, cutVars, result>>

\* handleFileChange on the workbook saved: importProjectFromExcel, the
\* setters, and the runs rehydrated under the settings of the file
ImportProject ==
    /\ pc = "exported"
    /\ settings' = IF Len(file.Settings) > 0 THEN file.Settings[1] ELSE settings
    /\ stock' = IF Len(file.Stock) > 0
                THEN [i \in 1..Len(file.Stock) |-> ImportStock(file.Stock[i])]
                ELSE stock
    /\ laps' = file.Rules
    /\ directPieces' = file.FixedPieces
    /\ inventory' = file.Inventory
    /\ runs' = IF Len(file.BarRuns) > 0
               THEN [i \in 1..Len(file.BarRuns) |->
                        Rehydrate(ImportRun(file.BarRuns[i]), settings')]
               ELSE runs
    /\ pc' = "imported"
    /\ UNCHANGED <<file, error, spliceVars, cutVars, result>>

\* a project saved and loaded again
ProjectNext ==
    \/ ExportProject
    \/ ImportProject

ProjectSpec == InitPlan /\ [][ProjectNext]_vars

\* generateSplicePlan alone: it has returned when the forEach is through
PlanNext ==
    \/ CheckCatalog
    \/ BeginRun
    \/ FinalPiece
    \/ CutPiece
    \/ EndRun

PlanSpec == InitPlan /\ [][PlanNext]_vars

\* optimizeCutting on a project of fixed pieces only
InitPieces ==
    /\ settings \in CuttingSettings
    /\ stock \in PieceCatalogs
    /\ laps = <<>>
    /\ runs = <<>>
    /\ directPieces \in DirectPiecesOver(PieceKinds)
    /\ inventory \in Inventories
    /\ NumRequests(0, directPieces) <= MaxRequests

CutNext ==
    \/ CheckCatalog
    \/ Flatten
    \/ BeginDia
    \/ SeedPass
    \/ ShufflePass
    \/ EndMonteCarlo
    \/ Aggregate
    \/ Return

\* the settings of a BALANCED solve, with and without kerf
PassSettings ==
    {[BaseSettings EXCEPT !.kerfMm = k, !.inventoryStrategy = st,
                          !.optimizationLevel = "BALANCED"] :
        k \in {0, 5}, st \in {"SEQUENTIAL", "MIXED"}}

\* performMonteCarlo with its fifty shuffled passes, on fixed pieces
InitPasses ==
    /\ settings \in PassSettings
    /\ stock \in CuttingCatalogs
    /\ laps = <<>>
    /\ runs = <<>>
    /\ directPieces \in DirectPiecesOver({<<16, 2000>>, <<16, 3000>>})
    /\ inventory \in Inventories
    /\ NumRequests(0, directPieces) <= MaxRequests

InitMonteCarloRun == InitPasses /\ InitState

MonteCarloSpec == InitMonteCarloRun /\ [][CutNext]_vars

InitCut == InitPieces /\ InitState

CutSpec == InitCut /\ [][CutNext]_vars

\* generateSplicePlan on one run and a catalog of short bars
InitShortStock == InitShort /\ InitState

ShortSpec == InitShortStock /\ [][PlanNext]_vars

\* generateSplicePlan on one member of several spans
InitSpanRun == InitSpans /\ InitState

SpanSpec == InitSpanRun /\ [][PlanNext]_vars

\* the planner on one run: each run's loop starts afresh
InitOneRun == InitPlan /\ Len(runs) = 1

\* generateSplicePlan is synchronous code: while a step is left, it is taken
PlanFairSpec == InitOneRun /\ [][PlanNext]_vars /\ WF_vars(PlanNext)

---------------------------------------------------------------------------
(* Properties of the splice plan (PlanSpec) *)

\* generateSplicePlan has returned {plan, warnings}
PlanReturned == pc = "forEachRun" /\ runIdx > Len(runs)

\* the run a plan item was made from
RunOf(item) == runs[MinOf({i \in 1..Len(runs) : runs[i].id = item.runId})]

RECURSIVE SumLengths(_)
SumLengths(pieces) ==
    IF pieces = <<>> THEN 0 ELSE Head(pieces).lengthMm + SumLengths(Tail(pieces))

\* the laps among n pieces laid end over end
Splices(n) == IF n = 0 THEN 0 ELSE n - 1

Abs(x) == IF x < 0 THEN -x ELSE x

\* ---- C1 ----
\* Splice length conservation: for every item of the plan, the sum of the
\* piece lengths minus one lap per splice (n - 1 splices among n pieces, none
\* in a run without pieces) is the run's totalLengthMm, within roundingStepMm.
C1_LengthConservation ==
    \A k \in 1..Len(plan) :
        LET pieces == plan[k].pieces
            run == RunOf(plan[k])
        IN  Abs(SumLengths(pieces) - Splices(Len(pieces)) * RunLap(run) - run.totalLengthMm)
                <= settings.roundingStepMm

\* a returned plan holding a run of three or more pieces, one of them rounded
C1_Witness ==
    /\ PlanReturned
    /\ settings.roundingStepMm > 1
    /\ \E k \in 1..Len(plan) : Len(plan[k].pieces) >= 3

\* 2 x the centre of the splice after piece i: endMm - lap/2
SpliceCenter2(piece, lap) == 2 * piece.endMm - lap

InZone2(x2, z) == 2 * z.startMm <= x2 /\ x2 <= 2 * z.endMm

Warned(barMark, x2) ==
    \E w \in 1..Len(warnings) :
        warnings[w].barMark = barMark /\ warnings[w].spliceLoc = Round2(x2)

\* ---- C2 ----
\* In the returned plan every splice centre (piece[i].endMm - lap/2, i not
\* the last piece) lies in one of the run's allowedZones, or warnings holds a
\* structural warning for that run at that position.
C2_SpliceInZoneOrWarned ==
    PlanReturned =>
        \A k \in 1..Len(plan) :
            LET pieces == plan[k].pieces
                run == RunOf(plan[k])
            IN  \A i \in 1..(Len(pieces) - 1) :
                    LET c2 == SpliceCenter2(pieces[i], RunLap(run))
                    IN  \/ \E z \in 1..Len(run.allowedZones) : InZone2(c2, run.allowedZones[z])
                        \/ Warned(run.barMark, c2)

Monotone(pieces, lap) ==
    /\ \A i \in 1..Len(pieces) : pieces[i].endMm = pieces[i].startMm + pieces[i].lengthMm
    /\ \A i \in 1..(Len(pieces) - 1) :
          /\ pieces[i + 1].startMm = pieces[i].endMm - lap
          /\ pieces[i].startMm < pieces[i + 1].startMm

\* ---- C4 ----
\* Piece monotonicity: in every plan item (and in the pieces being laid) the
\* pieces ascend in startMm, piece[i+1].startMm = piece[i].endMm - lap and
\* endMm = startMm + lengthMm.
C4_PieceMonotonicity ==
    /\ \A k \in 1..Len(plan) : Monotone(plan[k].pieces, RunLap(RunOf(plan[k])))
    /\ pc = "while" => Monotone(groupPieces, RunLap(runs[runIdx]))

\* a returned plan with a run of three or more pieces
C4_Witness ==
    /\ PlanReturned
    /\ \E k \in 1..Len(plan) : Len(plan[k].pieces) >= 3

\* the loop is at a cut for which no zone holds centerTarget and no zone ends
\* before cursor + L
ViolationAhead ==
    /\ pc = "while"
    /\ remainingTotal > RunMaxStock(runs[runIdx])
    /\ BestZone(runs[runIdx].allowedZones, currentAbsPos, RunMaxStock(runs[runIdx]),
                RunLap(runs[runIdx])) = NoZone

\* after the step: one more warning, for this run; one more piece, of length
\* len, at the cursor; the planner is back at the loop test, not aborted
ForcedCutOf(len) ==
    /\ pc' = "while"
    /\ error' = "none"
    /\ Len(warnings') = Len(warnings) + 1
    /\ SubSeq(warnings', 1, Len(warnings)) = warnings
    /\ warnings'[Len(warnings')].barMark = runs[runIdx].barMark
    /\ Len(groupPieces') = Len(groupPieces) + 1
    /\ groupPieces'[Len(groupPieces')].lengthMm = len
    /\ groupPieces'[Len(groupPieces')].startMm = currentAbsPos

---------------------------------------------------------------------------
(* Properties of the whole solve (Spec) *)

LapTooLong(run) == RunLap(run) >= RunMaxStock(run)

\* ---- C6 ----
\* Lap feasibility: when some run has lap >= maxStock the solve never gets
\* past planning and returns no result, and no plan item is made for such a
\* run.
C6_LapFeasibility ==
    /\ (\E i \in 1..Len(runs) : LapTooLong(runs[i])) =>
           /\ pc \in {"start", "forEachRun", "while", "error"}
           /\ result = NoResult
    /\ \A k \in 1..Len(plan) : ~LapTooLong(RunOf(plan[k]))

\* the solve has thrown at a run whose lap is its whole stock length, after
\* it planned the run before it
C6_Witness ==
    /\ pc = "error"
    /\ error = "LapGeMaxStock"
    /\ Len(plan) >= 1
    /\ RunLap(runs[runIdx]) = RunMaxStock(runs[runIdx])

\* ---- C7 ----
\* Bin capacity: in every bin optimizeDiaGroup returns, the cuts with a kerf
\* each fit the stock length, and remaining = stockLength - sum(cut + kerf)
\* is not negative.
C7_BinCapacity ==
    pc = "aggregate" =>
        \A b \in 1..Len(diaBins) :
            LET used == SumSeq(diaBins[b].cuts) + Len(diaBins[b].cuts) * settings.kerfMm
            IN  /\ used <= diaBins[b].stockLength
                /\ diaBins[b].remaining = diaBins[b].stockLength - used
                /\ diaBins[b].remaining >= 0

Occurrences(s, x) == Cardinality({i \in 1..Len(s) : s[i] = x})

\* the cuts of length l and diameter d in a cutting plan, patterns times count
CutCount(items, d, l) ==
    SumSeq([k \in 1..Len(items) |->
               IF items[k].dia = d THEN items[k].count * Occurrences(items[k].cuts, l) ELSE 0])

\* the pieces of length l and diameter d asked for: qtyParallel per piece of
\* the splice plan, qty per direct piece
DemandCount(d, l) ==
    SumSeq([k \in 1..Len(plan) |->
               IF RunOf(plan[k]).dia = d
               THEN RunOf(plan[k]).qtyParallel
                    * Cardinality({i \in 1..Len(plan[k].pieces) : plan[k].pieces[i].lengthMm = l})
               ELSE 0])
    + SumSeq([k \in 1..Len(directPieces) |->
                 IF directPieces[k].dia = d /\ directPieces[k].lengthMm = l
                 THEN directPieces[k].qty ELSE 0])

DiasAsked ==
    {runs[i].dia : i \in 1..Len(runs)} \cup {directPieces[i].dia : i \in 1..Len(directPieces)}

LengthsAsked ==
    UNION {{plan[k].pieces[i].lengthMm : i \in 1..Len(plan[k].pieces)} : k \in 1..Len(plan)}
    \cup {directPieces[i].lengthMm : i \in 1..Len(directPieces)}

LengthsCut(items) ==
    UNION {{items[k].cuts[i] : i \in 1..Len(items[k].cuts)} : k \in 1..Len(items)}

\* ---- C8 ----
\* Request conservation: in the result, for every diameter the multiset of
\* the cut lengths over all bins (pattern cuts times pattern count) is the
\* multiset of the requested lengths (qtyParallel x splice pieces + qty x
\* direct pieces); no cut is of a diameter nobody asked for.
C8_RequestConservation ==
    pc = "done" =>
        /\ \A d \in DiasAsked :
               \A l \in LengthsAsked \cup LengthsCut(result.cuttingPlan) :
                   CutCount(result.cuttingPlan, d, l) = DemandCount(d, l)
        /\ \A k \in 1..Len(result.cuttingPlan) : result.cuttingPlan[k].dia \in DiasAsked

\* a result for splice pieces and direct pieces of two diameters, one of the
\* pieces longer than every stock bar
C8_Witness ==
    /\ pc = "done"
    /\ plan # <<>>
    /\ \E k \in 1..Len(plan) : plan[k].pieces # <<>>
    /\ Cardinality({result.cuttingPlan[k].dia : k \in 1..Len(result.cuttingPlan)}) >= 2
    /\ \E k \in 1..Len(result.cuttingPlan) :
           result.cuttingPlan[k].cuts[1] > result.cuttingPlan[k].stockLength

\* the units the inventory holds of diameter d and length l
Available(d, l) ==
    SumSeq([k \in 1..Len(inventory) |->
               IF inventory[k].dia = d /\ inventory[k].lengthMm = l
               THEN Max(inventory[k].quantity, 0) ELSE 0])

InventoryBinCount(binSeq, l) ==
    Cardinality({b \in 1..Len(binSeq) : binSeq[b].isInventory /\ binSeq[b].stockLength = l})

InventoryLengths == {inventory[k].lengthMm : k \in 1..Len(inventory)}

\* ---- C9 ----
\* Inventory uniqueness: no inventory unit backs two bins.  The best pass of
\* the Monte Carlo, the bins of a diameter and the result use, of every
\* inventory length, no more bins than the inventory holds units, and no
\* inventory bin of any other length.
C9_InventoryUniqueness ==
    /\ pc = "mcLoop" =>
           /\ \A l \in InventoryLengths : InventoryBinCount(bestBins, l) <= Available(Dia, l)
           /\ \A b \in 1..Len(bestBins) :
                  bestBins[b].isInventory => bestBins[b].stockLength \in InventoryLengths
    /\ pc = "aggregate" =>
           /\ \A l \in InventoryLengths : InventoryBinCount(diaBins, l) <= Available(Dia, l)
           /\ \A b \in 1..Len(diaBins) :
                  diaBins[b].isInventory => diaBins[b].stockLength \in InventoryLengths
    /\ pc = "done" =>
           \A d \in DiasAsked : \A l \in InventoryLengths :
               SumSeq([k \in 1..Len(result.cuttingPlan) |->
                          IF /\ result.cuttingPlan[k].sourceType = "EXISTING_INVENTORY"
                             /\ result.cuttingPlan[k].dia = d
                             /\ result.cuttingPlan[k].stockLength = l
                          THEN result.cuttingPlan[k].count ELSE 0])
                   <= Available(d, l)

\* a MIXED result that used up every unit of an inventory length and went on
\* to new stock
C9_Witness ==
    /\ pc = "done"
    /\ settings.inventoryStrategy = "MIXED"
    /\ \E k \in 1..Len(result.cuttingPlan) :
           /\ result.cuttingPlan[k].sourceType = "EXISTING_INVENTORY"
           /\ result.cuttingPlan[k].count = Available(result.cuttingPlan[k].dia,
                                                      result.cuttingPlan[k].stockLength)
           /\ result.cuttingPlan[k].count >= 2
    /\ \E k \in 1..Len(result.cuttingPlan) : result.cuttingPlan[k].sourceType = "NEW_STOCK"

\* performMonteCarlo, lines 356-395, when every shuffle leaves the requests
\* in the order they came in
UnshuffledMonteCarlo(requests, stockOptions, kerf) ==
    LET seed == packingPass(SortDescLen(requests), stockOptions, kerf).bins
        pass == packingPass(requests, stockOptions, kerf).bins
    IN  IF Better(Waste(pass), Waste(seed)) THEN pass ELSE seed

\* optimizeDiaGroup, lines 313-354, on that performMonteCarlo
UnshuffledDiaGroup(dia) ==
    LET stockOptions == getStockOptions(dia, stock)
        requests == RequestsOfDia(allRequests, dia)
        relevantInventory == InventoryOfDia(inventory, dia)
        seq == consumeInventorySequential(requests, relevantInventory, settings)
    IN  IF settings.inventoryStrategy = "SEQUENTIAL"
        THEN seq.inventoryBins
             \o (IF Len(seq.remainingRequests) = 0 THEN <<>>
                 ELSE UnshuffledMonteCarlo(seq.remainingRequests, NewStockOpts(stockOptions),
                                           settings.kerfMm))
        ELSE UnshuffledMonteCarlo(requests, CombinedOptions(stockOptions, relevantInventory),
                                  settings.kerfMm)

\* optimizeCutting, lines 452-518, on that optimizeDiaGroup
RECURSIVE UnshuffledCuttingPlan(_)
UnshuffledCuttingPlan(dias) ==
    IF dias = <<>> THEN <<>>
    ELSE CuttingPlanItems(Head(dias), UnshuffledDiaGroup(Head(dias)), settings.minLeftoverMm)
         \o UnshuffledCuttingPlan(Tail(dias))

RECURSIVE UnshuffledProcurement(_)
UnshuffledProcurement(dias) ==
    IF dias = <<>> THEN <<>>
    ELSE ProcurementItems(Head(dias), UnshuffledDiaGroup(Head(dias)))
         \o UnshuffledProcurement(Tail(dias))

\* ---- C10 ----
\* Determinism: solves of the same inputs return the same outputs.  Every
\* result has the cutting patterns and the procurement of the solve of these
\* inputs in which the shuffles change nothing.
C10_Determinism ==
    pc = "done" =>
        /\ result.cuttingPlan = UnshuffledCuttingPlan(UniqueDias(allRequests))
        /\ result.procurement = UnshuffledProcurement(UniqueDias(allRequests))

---------------------------------------------------------------------------
(* Properties of the Monte Carlo (Spec) *)

\* performMonteCarlo has run its loop out and is about to return bestBins
MonteCarloOver == pc = "mcLoop" /\ ~(mcIter < Iterations(settings.optimizationLevel))

\* lines 367-368: the bins of the pass over the requests sorted descending
SeedBins == packingPass(SortDescLen(mcRequests), mcOptions, settings.kerfMm).bins

\* ---- C11 ----
\* Iteration budget: a Monte Carlo run makes N packing passes in all (the
\* seed pass and mcIter shuffled ones), N = 1, 50, 200 for FAST, BALANCED,
\* DEEP; under FAST it returns the bins of the seed pass.
C11_IterationBudget ==
    /\ pc = "mcLoop" => 1 + mcIter <= Iterations(settings.optimizationLevel)
    /\ (MonteCarloOver /\ settings.optimizationLevel = "FAST") => bestBins = SeedBins

\* ---- C12 ----
\* Monte Carlo monotonicity: over the passes of a run the best metric never
\* increases, the recorded best bins have exactly that metric, and the bins
\* returned have a metric no greater than the seed pass's.
C12_Monotonicity ==
    /\ [](pc = "mcLoop" =>
             /\ Waste(bestBins) = minWaste
             /\ minWaste <= seedWaste
             /\ seedWaste = Waste(SeedBins))
    /\ [][(pc = "mcLoop" /\ pc' = "mcLoop") => minWaste' <= minWaste]_vars

\* a run past several shuffled passes whose best is better than the seed pass
C12_Witness ==
    /\ pc = "mcLoop"
    /\ mcIter >= 2
    /\ minWaste < seedWaste
    /\ bestBins # SeedBins

\* performMonteCarlo, lines 362-394, under FAST: the metrics one seed pass
\* and one shuffled pass can return
FastWastes ==
    { LET waste == Waste(packingPass(shuffled, mcOptions, settings.kerfMm).bins)
      IN  IF Better(waste, seedWaste) THEN waste ELSE seedWaste :
        shuffled \in Shuffles(mcRequests) }

\* ---- C13 ----
\* Mode dominance: the metric a BALANCED or DEEP run returns is no greater
\* than any metric FAST returns for the same requests and options.
C13_ModeDominance ==
    (MonteCarloOver /\ settings.optimizationLevel \in {"BALANCED", "DEEP"}) =>
        \A fast \in FastWastes : minWaste <= fast

---------------------------------------------------------------------------
(* Properties of the inventory strategies (Spec) *)

\* optimizeDiaGroup is through consumeInventorySequential for the diameter
SequentialDone ==
    /\ settings.inventoryStrategy = "SEQUENTIAL"
    /\ pc \in {"monteCarlo", "aggregate"}

\* lines 251-261: the offcut units and the requests as the loop goes over them
SortedOffcuts == SortAscLen(FlattenInventory(InventoryOfDia(inventory, Dia)))
SortedRequests == SortDescLen(RequestsOfDia(allRequests, Dia))

\* the loop of lines 265-308 after its first k requests
ConsumedAfter(k) ==
    ConsumeFrom([inventoryBins |-> <<>>, remainingRequests |-> <<>>, usedOffcutIndices |-> {}],
                SubSeq(SortedRequests, 1, k), SortedOffcuts, settings.kerfMm)

\* request k went where inventory comes first: into a tightest open
\* inventory bin that holds it, else onto a tightest unused unit that holds
\* it, else to the requests left for new stock
InventoryFirstAt(k) ==
    LET before == ConsumedAfter(k - 1)
        after == ConsumedAfter(k)
        len == SortedRequests[k].len
        needed == len + settings.kerfMm
        openFit == {b \in 1..Len(before.inventoryBins) :
                        before.inventoryBins[b].remaining >= needed}
        unitFit == {u \in 1..Len(SortedOffcuts) :
                        u \notin before.usedOffcutIndices /\ SortedOffcuts[u].len >= needed}
    IN  IF openFit # {}
        THEN /\ \E b \in openFit :
                   /\ \A c \in openFit : before.inventoryBins[b].remaining
                                             <= before.inventoryBins[c].remaining
                   /\ after.inventoryBins =
                          [before.inventoryBins EXCEPT
                               ![b] = [@ EXCEPT !.remaining = @ - needed,
                                                !.cuts = Append(@, len)]]
             /\ after.usedOffcutIndices = before.usedOffcutIndices
             /\ after.remainingRequests = before.remainingRequests
        ELSE IF unitFit # {}
        THEN /\ \E u \in unitFit :
                   /\ \A v \in unitFit : SortedOffcuts[u].len <= SortedOffcuts[v].len
                   /\ after.inventoryBins =
                          Append(before.inventoryBins,
                                 [stockLength |-> SortedOffcuts[u].len,
                                  remaining |-> SortedOffcuts[u].len - needed,
                                  cuts |-> <<len>>, isInventory |-> TRUE])
                   /\ after.usedOffcutIndices = before.usedOffcutIndices \cup {u}
             /\ after.remainingRequests = before.remainingRequests
        ELSE /\ after.inventoryBins = before.inventoryBins
             /\ after.usedOffcutIndices = before.usedOffcutIndices
             /\ after.remainingRequests = Append(before.remainingRequests, SortedRequests[k])

\* ---- C14 ----
\* SEQUENTIAL consumes inventory first: taking a diameter's requests in
\* descending length, each goes into the tightest open inventory bin with
\* remaining >= len + kerf, else onto the tightest unused inventory unit of
\* length >= len + kerf, and is left for new stock only if there is neither;
\* the inventory bins returned are those, and only the requests left over
\* are packed, on new stock alone.
C14_SequentialInventoryFirst ==
    SequentialDone =>
        /\ \A k \in 1..Len(SortedRequests) : InventoryFirstAt(k)
        /\ inventoryBins = ConsumedAfter(Len(SortedRequests)).inventoryBins
        /\ \A b \in 1..Len(inventoryBins) : inventoryBins[b].isInventory
        /\ pc = "monteCarlo" =>
               /\ mcRequests = ConsumedAfter(Len(SortedRequests)).remainingRequests
               /\ \A o \in 1..Len(mcOptions) : ~mcOptions[o].isInventory

\* requests went into an open inventory bin, onto a fresh unit chosen among
\* units of two lengths, and on to new stock
C14_Witness ==
    /\ SequentialDone
    /\ pc = "monteCarlo"
    /\ mcRequests # <<>>
    /\ Len(inventoryBins) >= 2
    /\ \E b \in 1..Len(inventoryBins) : Len(inventoryBins[b].cuts) >= 2
    /\ \E b, c \in 1..Len(inventoryBins) :
           inventoryBins[b].stockLength # inventoryBins[c].stockLength

\* lines 177-231 for the request a pass takes first: no bin is open and no
\* inventory unit is used
FirstBin(req) ==
    PlaceRequest([bins |-> <<>>, usedInventoryIds |-> {}], req, mcOptions, settings.kerfMm).bins[1]

\* the options of the pool that hold a request of this length with a kerf
FittingOptions(len) ==
    {o \in 1..Len(mcOptions) : mcOptions[o].len >= len + settings.kerfMm}

\* ---- C15 ----
\* MIXED tie: when the request a pass takes first fits an inventory unit and
\* no option of the pool (inventory or new stock) fits it tighter, the bin is
\* opened on the inventory unit, also when a new-stock length fits as tight.
C15_MixedTiePrefersInventory ==
    (pc = "mcLoop" /\ settings.inventoryStrategy = "MIXED") =>
        \A i \in 1..Len(mcRequests) :
            LET fit == FittingOptions(mcRequests[i].len)
            IN  (\E o \in fit : /\ mcOptions[o].isInventory
                                /\ \A p \in fit : mcOptions[o].len <= mcOptions[p].len)
                    => FirstBin(mcRequests[i]).isInventory

---------------------------------------------------------------------------
(* Properties of the report (Spec) *)

\* what is left of a bar of this pattern, not below 0
ClampedRemainder(item) ==
    Max(0, item.stockLength - SumSeq(item.cuts) - Len(item.cuts) * settings.kerfMm)

\* ---- C16 ----
\* Offcut/waste dichotomy: every CuttingPlanItem of the result has, with
\* r = max(0, remaining) of its bins, offcut = r and waste = 0 if
\* r >= minLeftoverMm, else offcut = 0 and waste = r; never both positive.
C16_OffcutWasteDichotomy ==
    pc = "done" =>
        \A k \in 1..Len(result.cuttingPlan) :
            LET item == result.cuttingPlan[k]
                r == ClampedRemainder(item)
            IN  /\ IF r >= settings.minLeftoverMm
                   THEN item.offcut = r /\ item.waste = 0
                   ELSE item.offcut = 0 /\ item.waste = r
                /\ ~(item.offcut > 0 /\ item.waste > 0)
                /\ item.offcut + item.waste = r

\* a result with a pattern that leaves an offcut, one that leaves waste, and
\* one cut from a bar shorter than its piece
C16_Witness ==
    /\ pc = "done"
    /\ settings.minLeftoverMm > 0
    /\ \E k \in 1..Len(result.cuttingPlan) : result.cuttingPlan[k].offcut > 0
    /\ \E k \in 1..Len(result.cuttingPlan) : result.cuttingPlan[k].waste > 0
    /\ \E k \in 1..Len(result.cuttingPlan) :
           SumSeq(result.cuttingPlan[k].cuts) > result.cuttingPlan[k].stockLength

\* the NEW_STOCK bars of diameter d and stock length l in the cutting plan
NewStockBars(items, d, l) ==
    SumSeq([k \in 1..Len(items) |->
               IF /\ items[k].sourceType = "NEW_STOCK"
                  /\ items[k].dia = d
                  /\ items[k].stockLength = l
               THEN items[k].count ELSE 0])

\* ---- C17 ----
\* Procurement is new stock only and matches the cutting plan: for every
\* diameter and stock length the result has one ProcurementItem if the
\* cutting plan has NEW_STOCK bars of them and none if not; its quantity is
\* the number of those bars and its totalLength is quantity x stockLength.
C17_ProcurementMatchesPlan ==
    pc = "done" =>
        LET items == result.cuttingPlan
            proc == result.procurement
            dias == {items[k].dia : k \in 1..Len(items)} \cup {proc[k].dia : k \in 1..Len(proc)}
            lens == {items[k].stockLength : k \in 1..Len(items)}
                        \cup {proc[k].stockLength : k \in 1..Len(proc)}
        IN  \A d \in dias : \A l \in lens :
                LET at == {k \in 1..Len(proc) : proc[k].dia = d /\ proc[k].stockLength = l}
                IN  IF NewStockBars(items, d, l) = 0 THEN at = {}
                    ELSE /\ Cardinality(at) = 1
                         /\ \A k \in at : /\ proc[k].quantity = NewStockBars(items, d, l)
                                          /\ proc[k].totalLength = proc[k].quantity * l

\* a result that used inventory and bought several bars, of two diameters
C17_Witness ==
    /\ pc = "done"
    /\ \E k \in 1..Len(result.cuttingPlan) :
           result.cuttingPlan[k].sourceType = "EXISTING_INVENTORY"
    /\ \E k \in 1..Len(result.procurement) : result.procurement[k].quantity >= 2
    /\ Cardinality({result.procurement[k].dia : k \in 1..Len(result.procurement)}) >= 2

---------------------------------------------------------------------------
(* Properties of the project file (ProjectSpec) *)

\* C19: importing the workbook just exported yields the same bar runs: id,
\* barMark, memberType, dia, qtyParallel, geometry and lapCase of every run
\* are kept, and so are the recomputed totalLengthMm and allowedZones, also
\* for the runs entered as Beam (Bottom).
C19_SaveLoadRoundTrip ==
    [][(pc = "exported" /\ pc' = "imported") => runs' = runs]_vars

---------------------------------------------------------------------------
(* Properties of the planner's loop (PlanFairSpec) *)

\* an iteration of the CONTINUE branch that did not throw
NonFinalIteration ==
    /\ pc = "while"
    /\ remainingTotal > RunMaxStock(runs[runIdx])
    /\ pc' = "while"

---------------------------------------------------------------------------
(* Properties of the zone selection (PlanSpec) *)

\* the loop is at a non-final cut
AtCut == pc = "while" /\ remainingTotal > RunMaxStock(runs[runIdx])

\* the zones holding the target under the half-open reading [startMm, endMm)
ContainingZones(zones, target2) ==
    {i \in 1..Len(zones) : 2 * zones[i].startMm <= target2 /\ target2 < 2 * zones[i].endMm}

\* the zones that end before cursor + L
ReachableZones(zones, cur, L) == {i \in 1..Len(zones) : zones[i].endMm < cur + L}

\* z is what the stated rule chooses among zones for the cut at cur
IsSpecifiedZone(z, zones, cur, L, lap) ==
    LET containing == ContainingZones(zones, SpliceCenterTarget2(cur, L, lap))
        reachable == ReachableZones(zones, cur, L)
    IN  IF containing # {} THEN \E i \in containing : z = zones[i]
        ELSE IF reachable # {}
        THEN \E i \in reachable :
                /\ z = zones[i]
                /\ \A j \in reachable :
                      \/ zones[j].endMm < zones[i].endMm
                      \/ zones[j].endMm = zones[i].endMm /\ zones[j].startMm <= zones[i].startMm
        ELSE z = NoZone

\* C21: the zone of every non-final cut is the one the stated rule gives: a
\* zone holding centerTarget in [startMm, endMm), else the zone of greatest
\* endMm (then greatest startMm) among those ending before cursor + L, else
\* none, and then a violation is recorded.
C21_ZoneSelection ==
    [][AtCut =>
        LET run == runs[runIdx]
            L == RunMaxStock(run)
            lap == RunLap(run)
            cut == PlanCut(run, currentAbsPos, L, lap, settings.roundingStepMm)
        IN  /\ IsSpecifiedZone(cut.zone, run.allowedZones, currentAbsPos, L, lap)
            /\ (cut.zone = NoZone /\ pc' = "while") => Len(warnings') = Len(warnings) + 1]_vars

\* C22: the zone chosen for a cut lies ahead of the cursor: its endMm is
\* beyond the cursor and the piece length before rounding,
\* center + lap/2 - cursor, is positive.
C22_ZoneAheadOfCursor ==
    AtCut =>
        LET run == runs[runIdx]
            L == RunMaxStock(run)
            lap == RunLap(run)
            zone == PlanCut(run, currentAbsPos, L, lap, settings.roundingStepMm).zone
        IN  zone # NoZone =>
                /\ zone.endMm > currentAbsPos
                /\ ProposedSpliceCenter2(zone, currentAbsPos, L, lap) + lap - 2 * currentAbsPos > 0

---------------------------------------------------------------------------
(* Properties of the packing pass (CutSpec) *)

\* performMonteCarlo is entered with its requests and options
InMonteCarlo == pc = "monteCarlo"

\* the pass over the first k requests of an order
PackPrefix(order, k) == packingPass(SubSeq(order, 1, k), mcOptions, settings.kerfMm)

\* from before to after, req went into an open bin that fits it tightest,
\* and into a new bin only when no open bin fits
PlacedAsStated(before, after, req, kerf) ==
    LET needed == req.len + kerf
        fits == {i \in 1..Len(before) : before[i].remaining >= needed}
    IN  IF fits = {}
        THEN /\ Len(after) \in {Len(before), Len(before) + 1}
             /\ \A i \in 1..Len(before) : after[i] = before[i]
        ELSE /\ Len(after) = Len(before)
             /\ \E i \in fits :
                   /\ \A j \in fits : before[i].remaining <= before[j].remaining
                   /\ after[i] = [before[i] EXCEPT !.remaining = @ - needed,
                                                    !.cuts = Append(@, req.len)]
                   /\ \A j \in 1..Len(before) : j # i => after[j] = before[j]

\* C23: in a packing pass, on any order of the requests, a request opens a
\* new bin only when no open bin has remaining >= len + kerf; otherwise it
\* goes to the open bin of least remaining - (len + kerf), whose remaining
\* falls by len + kerf and whose cuts gain len; the other bins stay.
C23_ReuseOpenBin ==
    InMonteCarlo =>
        \A order \in Shuffles(mcRequests) : \A k \in 1..Len(order) :
            PlacedAsStated(PackPrefix(order, k - 1).bins, PackPrefix(order, k).bins,
                           order[k], settings.kerfMm)

\* a pass in which a request found two open bins of different remaining
\* that both fit it
C23_Witness ==
    /\ InMonteCarlo
    /\ \E order \in Shuffles(mcRequests) : \E k \in 1..Len(order) :
          LET before == PackPrefix(order, k - 1).bins
              needed == order[k].len + settings.kerfMm
          IN  \E i, j \in 1..Len(before) :
                /\ before[i].remaining >= needed
                /\ before[j].remaining > before[i].remaining

\* the bins of the diameter in hand: those optimizeDiaGroup has so far, or
\* has returned
BinsInHand ==
    IF pc = "aggregate" THEN diaBins
    ELSE IF pc = "mcLoop" THEN inventoryBins \o bestBins
    ELSE <<>>

\* the largest stock length of the diameter in hand
LargestStock == getStockOptions(Dia, stock)[1]

\* C24: a bin with remaining < 0 is a forced bar: one cut, on the largest
\* new-stock length, that did not fit it; every bin of two or more cuts has
\* sum(cut + kerf) <= stockLength; and when no request of the diameter is
\* longer than its largest stock length, every bin has sum(cut) <= stockLength.
C24_OversizeBins ==
    \A i \in 1..Len(BinsInHand) :
        LET bin == BinsInHand[i]
        IN  /\ bin.remaining < 0 =>
                /\ Len(bin.cuts) = 1
                /\ ~bin.isInventory
                /\ bin.stockLength = LargestStock
                /\ bin.cuts[1] + settings.kerfMm > bin.stockLength
            /\ Len(bin.cuts) >= 2 =>
                SumSeq(bin.cuts) + Len(bin.cuts) * settings.kerfMm <= bin.stockLength
            /\ (\A r \in 1..Len(allRequests) :
                    allRequests[r].dia = Dia => allRequests[r].len <= LargestStock)
                => SumSeq(bin.cuts) <= bin.stockLength

\* a forced bar beside a bin of two cuts, from a pool that holds inventory
C24_Witness ==
    /\ pc = "aggregate"
    /\ settings.inventoryStrategy = "MIXED"
    /\ \E i \in 1..Len(inventory) : inventory[i].quantity > 0
    /\ \E i, j \in 1..Len(diaBins) :
          /\ diaBins[i].remaining < 0
          /\ Len(diaBins[j].cuts) >= 2

---------------------------------------------------------------------------
(* Properties of the frame (Spec) *)

\* C25: a solve leaves its inputs as they were, whether it returns or
\* throws: runs with their zones, fixed pieces, settings, the catalog with
\* the order of every stockLengths list, lap rules and inventory with its
\* quantities; and a pass that does not become the best leaves the best
\* bins as they were.
C25_InputsUnchanged ==
    [][/\ runs' = runs
       /\ directPieces' = directPieces
       /\ settings' = settings
       /\ stock' = stock
       /\ laps' = laps
       /\ inventory' = inventory
       /\ (pc = "mcLoop" /\ pc' = "mcLoop" /\ minWaste' = minWaste) => bestBins' = bestBins]_vars

\* a solve has returned on a catalog entered in ascending order, with cuts
\* taken from the inventory
C25_Witness ==
    /\ pc = "done"
    /\ \E i \in 1..Len(stock) : stock[i].stockLengths # SortDesc(stock[i].stockLengths)
    /\ \E i \in 1..Len(result.cuttingPlan) : result.cuttingPlan[i].sourceType = "EXISTING_INVENTORY"
    /\ Len(result.splicePlan) > 0

---------------------------------------------------------------------------
(* Properties of the cutting plan items (Spec) *)

\* the bins of a diameter have just been reported: diaBins still holds them
Aggregated == pc = "forEachDia" /\ diaIdx > 1

\* the diameter reported last
LastDia == UniqueDias(allRequests)[diaIdx - 1]

\* the bins of diaBins an item stands for: same source, stock length and
\* sorted cuts
BinsOfItem(item) ==
    {i \in 1..Len(diaBins) :
        /\ diaBins[i].isInventory = (item.sourceType = "EXISTING_INVENTORY")
        /\ diaBins[i].stockLength = item.stockLength
        /\ SortDesc(diaBins[i].cuts) = item.cuts}

RECURSIVE SumCounts(_)
SumCounts(items) == IF items = <<>> THEN 0 ELSE Head(items).count + SumCounts(Tail(items))

\* C26: the items of a diameter stand for its bins: an item's count is the
\* number of bins of its source type, stock length and sorted cuts, the
\* counts add up to the number of bins, and every bin of an item has the
\* clamped remainder offcut + waste of the item.
C26_ItemsMatchBins ==
    Aggregated =>
        LET items == SelectSeq(cuttingPlan, LAMBDA it : it.dia = LastDia)
        IN  /\ \A k \in 1..Len(items) :
                  /\ items[k].count = Cardinality(BinsOfItem(items[k]))
                  /\ \A i \in BinsOfItem(items[k]) :
                        Max(0, diaBins[i].remaining) = items[k].offcut + items[k].waste
            /\ SumCounts(items) = Len(diaBins)

\* a second diameter reported, with an item of two bins, and an inventory
\* bin and a new bar of one length and the same cuts
C26_Witness ==
    /\ Aggregated
    /\ diaIdx > 2
    /\ \E k \in 1..Len(cuttingPlan) : cuttingPlan[k].count >= 2
    /\ \E k, l \in 1..Len(cuttingPlan) :
          /\ cuttingPlan[k].sourceType # cuttingPlan[l].sourceType
          /\ cuttingPlan[k].dia = cuttingPlan[l].dia
          /\ cuttingPlan[k].stockLength = cuttingPlan[l].stockLength
          /\ cuttingPlan[k].cuts = cuttingPlan[l].cuts

---------------------------------------------------------------------------
(* Properties of the cover of a run (ShortSpec) *)

\* C27: the pieces of a run cover it exactly: at the start of every
\* iteration cursor + remaining is the run's totalLengthMm, and in the plan
\* returned every run of totalLengthMm > 0 has a first piece that starts at
\* 0 and a last piece that ends at totalLengthMm.
C27_ExactCover ==
    /\ (pc = "while" /\ remainingTotal > 0) =>
          currentAbsPos + remainingTotal = runs[runIdx].totalLengthMm
    /\ PlanReturned =>
          \A k \in 1..Len(plan) :
              RunOf(plan[k]).totalLengthMm > 0 =>
                  /\ Len(plan[k].pieces) >= 1
                  /\ plan[k].pieces[1].startMm = 0
                  /\ plan[k].pieces[Len(plan[k].pieces)].endMm = RunOf(plan[k]).totalLengthMm

---------------------------------------------------------------------------
(* What the splice plan depends on (Spec) *)

\* generateSplicePlan, lines 45-128: the while loop of one run as a function
\* of the run, maxStock, the lap and the rounding step, from a cursor on
RECURSIVE SpliceLoop(_, _, _, _, _, _, _, _)
SpliceLoop(run, L, lap, step, cur, remaining, pieces, warns) ==
    IF ~(remaining > 0) THEN [ok |-> TRUE, pieces |-> pieces, warnings |-> warns]
    ELSE IF remaining <= L
    THEN [ok |-> TRUE, pieces |-> Append(pieces, LastPiece(cur, remaining)),
          warnings |-> warns]
    ELSE LET cut == PlanCut(run, cur, L, lap, step)
             advanceBy == AdvanceBy(cut.actualCutLen, lap)
         IN  IF NoProgress(advanceBy)
             THEN [ok |-> FALSE, pieces |-> pieces, warnings |-> warns]
             ELSE SpliceLoop(run, L, lap, step, cur + advanceBy, remaining - advanceBy,
                             Append(pieces, CutPieceOf(cur, cut.actualCutLen)),
                             IF cut.violation
                             THEN Append(warns, Warning(run, cur, cut.actualCutLen, lap, L))
                             ELSE warns)

\* generateSplicePlan, lines 28-139: the forEach over the runs from run i on
RECURSIVE SplicePlanFrom(_, _, _, _, _, _, _)
SplicePlanFrom(allRuns, rules, catalog, step, i, items, warns) ==
    IF i > Len(allRuns) THEN [ok |-> TRUE, plan |-> items, warnings |-> warns]
    ELSE LET run == allRuns[i]
             lap == getLapLength(run.dia, run.lapCase, rules)
             L == getStockOptions(run.dia, catalog)[1]
         IN  IF ~LapFits(lap, L) THEN [ok |-> FALSE, plan |-> items, warnings |-> warns]
             ELSE LET loop == SpliceLoop(run, L, lap, step, 0, run.totalLengthMm, <<>>, warns)
                  IN  IF ~loop.ok THEN [ok |-> FALSE, plan |-> items, warnings |-> warns]
                      ELSE SplicePlanFrom(allRuns, rules, catalog, step, i + 1,
                                          Append(items, [runId |-> run.id,
                                                         barMark |-> run.barMark,
                                                         groupId |-> 0,
                                                         pieces |-> loop.pieces]),
                                          loop.warnings)

\* generateSplicePlan as a function of the runs, the lap rules, the catalog
\* and settings.roundingStepMm
generateSplicePlan(allRuns, rules, catalog, step) ==
    SplicePlanFrom(allRuns, rules, catalog, step, 1, <<>>, <<>>)

\* C28: the splice plan and the warnings a solve returns are those that the
\* runs, the lap rules, the stock catalog and roundingStepMm alone determine,
\* whatever kerfMm, minLeftoverMm, optimizationLevel, inventoryStrategy, the
\* inventory, the direct pieces and the shuffles were.
C28_PlanDependsOnPlanInputs ==
    result.kind = "result" =>
        LET ref == generateSplicePlan(runs, laps, stock, settings.roundingStepMm)
        IN  /\ ref.ok
            /\ result.splicePlan = ref.plan
            /\ result.warnings = ref.warnings

\* a solve with kerf, a leftover threshold, MIXED inventory in stock and a
\* direct piece has returned a run cut in two
C28_Witness ==
    /\ result.kind = "result"
    /\ settings.kerfMm > 0
    /\ settings.minLeftoverMm > 0
    /\ settings.inventoryStrategy = "MIXED"
    /\ Len(directPieces) > 0
    /\ \E i \in 1..Len(inventory) : inventory[i].quantity > 0
    /\ \E k \in 1..Len(result.splicePlan) : Len(result.splicePlan[k].pieces) >= 2

---------------------------------------------------------------------------
(* The metric of a Monte Carlo run and the stock it opens (Spec) *)

\* what the requests take of the bars they are cut from: len + kerf each
RECURSIVE Needed(_, _)
Needed(requests, kerf) ==
    IF requests = <<>> THEN 0 ELSE Head(requests).len + kerf + Needed(Tail(requests), kerf)

\* C29: in a Monte Carlo run every pass places the same requests, so the sum
\* of remaining of a pass is its total stockLength less what the requests
\* take; the best bins have a total stockLength (inventory and new stock) no
\* greater than the seed pass's, a pass replaces the best only by bins of
\* strictly smaller total stockLength, and whatever order the next pass
\* draws, the best after it is no longer than that pass.
C29_StockLengthOrder ==
    /\ [](pc = "mcLoop" =>
             /\ SumStockLength(bestBins) <= SumStockLength(SeedBins)
             /\ \A order \in Shuffles(mcRequests) \cup {SortDescLen(mcRequests)} :
                   LET res == packingPass(order, mcOptions, settings.kerfMm)
                       kept == IF Better(Waste(res.bins), minWaste) THEN res.bins
                               ELSE bestBins
                   IN  /\ Waste(res.bins) = SumStockLength(res.bins)
                                               - Needed(mcRequests, settings.kerfMm)
                       /\ SumStockLength(kept) <= SumStockLength(res.bins)
                       /\ SumStockLength(kept) <= SumStockLength(bestBins))
    /\ [][(pc = "mcLoop" /\ pc' = "mcLoop") =>
             /\ SumStockLength(bestBins') <= SumStockLength(bestBins)
             /\ bestBins' # bestBins =>
                    SumStockLength(bestBins') < SumStockLength(bestBins)]_vars

\* after several passes of a MIXED run the best bins, an offcut among them,
\* are of less stock than the seed pass's
C29_Witness ==
    /\ pc = "mcLoop"
    /\ mcIter >= 2
    /\ settings.inventoryStrategy = "MIXED"
    /\ \E i \in 1..Len(bestBins) : bestBins[i].isInventory
    /\ SumStockLength(bestBins) < SumStockLength(SeedBins)

---------------------------------------------------------------------------
(* The waste reported (Spec) *)

\* C30: in every result returned summary.totalWaste is not negative and
\* wastePercent (in hundredths of a percent) lies between 0 and 100.
C30_WasteNotNegative ==
    result.kind = "result" =>
        /\ result.summary.totalWaste >= 0
        /\ result.summary.wastePercent >= 0
        /\ result.summary.wastePercent <= 10000

=============================================================================
